---------------------------- MODULE Spec2Model ----------------------------
(***************************************************************************)
(* Model of src/main.cpp: the CodeEditor window (a QsciScintilla editor,   *)
(* a status bar and the File menu slots) and its updateStats slot, which   *)
(* counts words and grapheme clusters with ICU break iterators.            *)
(*                                                                         *)
(* A text is a sequence of Unicode code points (all of the Basic           *)
(* Multilingual Plane here, so a QString / UnicodeString UTF-16 unit is a  *)
(* scalar value).  Bytes are numbers 0..255.  The file system and the      *)
(* dialogs are the environment: what a dialog answers, whether a file      *)
(* opens and what bytes it holds are inputs of the actions.  The contents  *)
(* of the disk are not state of the window and are not kept; closing the   *)
(* window (Exit) and the editor's undo history change none of the          *)
(* variables below and have no action.                                     *)
(***************************************************************************)
EXTENDS Integers, Sequences, FiniteSets

(* Longest text the user builds by editing, and longest file read.         *)
MaxLen == 2
MaxFileLen == 1

(* Code points the user can enter: U+0000, SPACE, 'a' and U+0301 COMBINING *)
(* ACUTE ACCENT.  U+FFFD enters only through decoding.                     *)
Alphabet == {0, 32, 97, 769}

(* Bytes a file can hold: 'a', and the two bytes 0xCC 0x81 of the UTF-8    *)
(* form of U+0301, which are ill-formed when they stand alone.             *)
FileByteAlphabet == {97, 129, 204}

(* File names the dialogs can return; NoFile is the empty QString.         *)
NoFile == ""
FileNames == {"f1"}

RECURSIVE SeqsUpTo(_, _)
SeqsUpTo(S, n) ==
  IF n = 0 THEN {<<>>}
  ELSE LET shorter == SeqsUpTo(S, n - 1)
       IN  shorter \cup {Append(s, x) : s \in {t \in shorter : Len(t) = n - 1}, x \in S}

FileContents == SeqsUpTo(FileByteAlphabet, MaxFileLen)

(***************************************************************************)
(* Conversions between text and UTF-8 bytes.                               *)
(***************************************************************************)
ReplacementCharacter == 65533

IsSurrogate(cp) == cp \in 55296..57343

(* UTF-8 form of one code point below U+10000.                             *)
Utf8Encode(cp) ==
  IF cp < 128 THEN <<cp>>
  ELSE IF cp < 2048 THEN <<192 + (cp \div 64), 128 + (cp % 64)>>
  ELSE <<224 + (cp \div 4096), 128 + ((cp \div 64) % 64), 128 + (cp % 64)>>

(* QString::toUtf8: a lone surrogate is encoded as U+FFFD.                 *)
RECURSIVE toUtf8(_)
toUtf8(t) ==
  IF t = <<>> THEN <<>>
  ELSE Utf8Encode(IF IsSurrogate(Head(t)) THEN ReplacementCharacter ELSE Head(t))
         \o toUtf8(Tail(t))

(* std::string built from constData(): the bytes up to the first NUL byte. *)
RECURSIVE CString(_)
CString(bytes) ==
  IF bytes = <<>> \/ Head(bytes) = 0 THEN <<>>
  ELSE <<Head(bytes)>> \o CString(Tail(bytes))

IsContinuation(b) == b \in 128..191

(* UTF-8 decoding of one-, two- and three-byte forms; a byte that starts   *)
(* no well-formed sequence decodes to U+FFFD and decoding resumes at the   *)
(* next byte.                                                              *)
RECURSIVE Utf8Decode(_)
Utf8Decode(bytes) ==
  IF bytes = <<>> THEN <<>>
  ELSE LET b == Head(bytes)
           n == Len(bytes)
           two == (b - 192) * 64 + (bytes[2] - 128)
           three == (b - 224) * 4096 + (bytes[2] - 128) * 64 + (bytes[3] - 128)
       IN  IF b < 128 THEN <<b>> \o Utf8Decode(Tail(bytes))
           ELSE IF b \in 194..223 /\ n >= 2 /\ IsContinuation(bytes[2])
             THEN <<two>> \o Utf8Decode(SubSeq(bytes, 3, n))
           ELSE IF /\ b \in 224..239 /\ n >= 3
                   /\ IsContinuation(bytes[2]) /\ IsContinuation(bytes[3])
                   /\ three >= 2048 /\ ~IsSurrogate(three)
             THEN <<three>> \o Utf8Decode(SubSeq(bytes, 4, n))
           ELSE <<ReplacementCharacter>> \o Utf8Decode(Tail(bytes))

(* QString::fromUtf8(bytes) in openFile.                                   *)
QString_fromUtf8(bytes) == Utf8Decode(bytes)

(* icu::UnicodeString::fromUTF8(utf8) in updateStats.                      *)
UnicodeString_fromUTF8(utf8) == Utf8Decode(utf8)

(* Whether a byte sequence is well-formed UTF-8: it round-trips.           *)
ValidUtf8(bytes) == toUtf8(Utf8Decode(bytes)) = bytes

(* The UnicodeString updateStats hands to both break iterators.            *)
utextOf(t) == UnicodeString_fromUTF8(CString(toUtf8(t)))

(***************************************************************************)
(* ICU break iterators over the modelled code points (UAX #29).            *)
(***************************************************************************)
DONE == -1
UBRK_WORD_NONE == 0
UBRK_WORD_LETTER == 200

IsALetter(cp) == cp = 97
IsWSegSpace(cp) == cp = 32
IsExtend(cp) == cp = 769
IsControl(cp) == cp = 0

(* UErrorCode values createWordInstance / createCharacterInstance can      *)
(* report: rules found for the locale; no rules for the locale, the        *)
(* default (root) rules used instead, which is a warning; no rules at all, *)
(* which is a failure and yields no iterator.                              *)
U_USING_DEFAULT_WARNING == -127
U_ZERO_ERROR == 0
U_MISSING_RESOURCE_ERROR == 2
ICUStatus == {U_USING_DEFAULT_WARNING, U_ZERO_ERROR, U_MISSING_RESOURCE_ERROR}

(* A stricter test than the macro: warnings rejected.                      *)
U_SUCCESS_NoWarnings(status) == status = U_ZERO_ERROR

(* U_SUCCESS(status): errors are above U_ZERO_ERROR, warnings below.       *)
U_SUCCESS(status) == status <= U_ZERO_ERROR

(* The character that decides the rules after u[j]: Extend characters are  *)
(* transparent (WB4), so it is the nearest non-Extend character at or      *)
(* before j, or the first character.                                       *)
RECURSIVE WordBase(_, _)
WordBase(u, j) == IF j = 1 \/ ~IsExtend(u[j]) THEN u[j] ELSE WordBase(u, j - 1)

(* A word boundary lies before u[i], 1 < i <= Len(u), unless WB3d, WB4 or  *)
(* WB5 forbids it.                                                         *)
WordBreakBefore(u, i) ==
  /\ ~IsExtend(u[i])
  /\ ~(IsWSegSpace(u[i - 1]) /\ IsWSegSpace(u[i]))
  /\ ~(IsALetter(WordBase(u, i - 1)) /\ IsALetter(u[i]))

(* Offsets of the word boundaries; {0} for the empty text.                 *)
WordBoundaries(u) ==
  {0, Len(u)} \cup {i - 1 : i \in {k \in 2..Len(u) : WordBreakBefore(u, k)}}

(* A grapheme boundary lies before u[i] unless u[i] is Extend and does not *)
(* follow a control character (GB4, GB9).                                  *)
GraphemeBreakBefore(u, i) == ~IsExtend(u[i]) \/ IsControl(u[i - 1])

GraphemeBoundaries(u) ==
  {0, Len(u)} \cup {i - 1 : i \in {k \in 2..Len(u) : GraphemeBreakBefore(u, k)}}

(* BreakIterator::next(): the first boundary after the current one.        *)
next(bs, cur) ==
  IF \E b \in bs : b > cur
  THEN CHOOSE b \in bs : b > cur /\ \A c \in bs : c > cur => b <= c
  ELSE DONE

(* The boundary before `end`.                                              *)
previous(bs, end) == CHOOSE b \in bs : b < end /\ \A c \in bs : c < end => c <= b

(* getRuleStatus() after next() returned `end`: the tag of the segment     *)
(* that ends there, a letter tag when the segment holds a letter.          *)
getRuleStatus(u, bs, end) ==
  IF \E i \in (previous(bs, end) + 1)..end : IsALetter(u[i])
  THEN UBRK_WORD_LETTER ELSE UBRK_WORD_NONE

(***************************************************************************)
(* State of the CodeEditor window.                                         *)
(***************************************************************************)
VARIABLES
  text,         \* editor->text(): the committed document
  modified,     \* editor->isModified()
  currentFile,  \* CodeEditor::currentFile
  statusMsg,    \* the message the status bar shows
  wordStatus,   \* UErrorCode of createWordInstance in this process
  charStatus,   \* UErrorCode of createCharacterInstance in this process
  lastStats,    \* the most recent updateStats run: what it read and computed
  lastOp,       \* the most recent slot that ran, and how it ended
  probe         \* the result of one earlier updateStats run, kept for comparison

vars == <<text, modified, currentFile, statusMsg, wordStatus, charStatus,
          lastStats, lastOp, probe>>

(* A status bar message: its kind, and the numbers or the file name in it. *)
Msg(kind, words, chars, file) ==
  [kind |-> kind, words |-> words, chars |-> chars, file |-> file]

CountsMsg(wordCount, graphemes) == Msg("Words: %1 | Characters: %2", wordCount, graphemes, NoFile)
NewFileMsg == Msg("New file", 0, 0, NoFile)
OpenedMsg(fileName) == Msg("Opened: ", 0, 0, fileName)
SavedMsg(fileName) == Msg("Saved: ", 0, 0, fileName)

IsCountsMsg(m) == m.kind = "Words: %1 | Characters: %2"

(***************************************************************************)
(* updateStats.                                                            *)
(***************************************************************************)
(* A counter that is not reset: it starts from the previous run's count.   *)
wordCountKept == IF lastOp.op = "CodeEditor" THEN 0 ELSE lastStats.wordCount

(* int wordCount = 0;                                                      *)
wordCountInit == 0

(* int graphemes = 0;                                                      *)
graphemesInit == 0

(* wordIter->first() and charIter->first().                                *)
first(bs) == CHOOSE b \in bs : \A c \in bs : b <= c

(* A loop that counts every segment.                                       *)
CountsEverySegment(u, bs, end) == TRUE

(* Whether the loop counts the segment that ends at `end`.                 *)
CountsAsWord(u, bs, end) == getRuleStatus(u, bs, end) # UBRK_WORD_NONE

(* while ((end = wordIter->next()) != DONE) { if (status != NONE) ++n; }   *)
RECURSIVE wordLoop(_, _, _, _)
wordLoop(u, bs, cur, wordCount) ==
  LET end == next(bs, cur)
  IN  IF end = DONE THEN wordCount
      ELSE wordLoop(u, bs, end,
                    IF CountsAsWord(u, bs, end) THEN wordCount + 1 ELSE wordCount)

(* A loop that counts the boundaries it visits, DONE's predecessor too.    *)
RECURSIVE graphemeLoopPerBoundary(_, _, _)
graphemeLoopPerBoundary(bs, end, graphemes) ==
  IF end = DONE THEN graphemes + 1
  ELSE graphemeLoopPerBoundary(bs, next(bs, end), graphemes + 1)

(* for (; end != DONE; start = end, end = charIter->next()) ++graphemes;   *)
RECURSIVE graphemeLoop(_, _, _)
graphemeLoop(bs, end, graphemes) ==
  IF end = DONE THEN graphemes
  ELSE graphemeLoop(bs, next(bs, end), graphemes + 1)

(* The word count of the UnicodeString u when createWordInstance reports   *)
(* status.                                                                 *)
countWords(u, status) ==
  IF U_SUCCESS(status)
  THEN LET bs == WordBoundaries(u) IN wordLoop(u, bs, first(bs), wordCountInit)
  ELSE wordCountInit

(* The grapheme count of the UnicodeString u when createCharacterInstance  *)
(* reports status.                                                         *)
countGraphemes(u, status) ==
  IF U_SUCCESS(status)
  THEN LET bs == GraphemeBoundaries(u) IN graphemeLoop(bs, next(bs, first(bs)), graphemesInit)
  ELSE graphemesInit

(* One run of updateStats on the editor text t: the text it read, the      *)
(* UnicodeString it segmented, the counts and the message it showed.       *)
updateStats(t) ==
  LET utext == utextOf(t)
      wordCount == countWords(utext, wordStatus)
      graphemes == countGraphemes(utext, charStatus)
  IN  [text |-> t, utext |-> utext, wordCount |-> wordCount,
       graphemes |-> graphemes, msg |-> CountsMsg(wordCount, graphemes)]

(* A setText that emits no textChanged.                                    *)
setTextSilently(old, new) == lastStats

(* editor->setText(new) on a document holding old: the textChanged signal  *)
(* runs updateStats unless the document was and stays empty.               *)
setText(old, new) ==
  IF old = <<>> /\ new = <<>> THEN lastStats ELSE updateStats(new)

(***************************************************************************)
(* File menu slots.  env holds what the environment answers during a save: *)
(* the name the Save As dialog returns, whether the file opens for writing *)
(* and whether the write succeeds.                                         *)
(***************************************************************************)
SaveEnv == [saveName : FileNames \cup {NoFile}, openOk : BOOLEAN, writeOk : BOOLEAN]

(* The answers a save started with currentFile = cf can read; an answer    *)
(* that is never asked for is fixed, so that no answer is listed twice.    *)
SaveEnvs(cf) ==
  {e \in SaveEnv :
     /\ cf # NoFile => e.saveName = NoFile
     /\ (cf = NoFile /\ e.saveName = NoFile) => ~e.openOk
     /\ ~e.openOk => ~e.writeOk}

(* The save a slot runs after the question `answer`, if any.               *)
AskEnvs(answer) ==
  IF modified /\ answer = "Yes" THEN SaveEnvs(currentFile)
  ELSE {[saveName |-> NoFile, openOk |-> FALSE, writeOk |-> FALSE]}

Answers == {"Yes", "No", "Cancel"}

(* The answers to the "Unsaved Changes" question, asked of a modified      *)
(* document only.                                                          *)
AskAnswers == IF modified THEN Answers ELSE {"No"}

SaveState(ret, cf, m, msg) ==
  [ret |-> ret, currentFile |-> cf, modified |-> m, statusMsg |-> msg]

RECURSIVE saveFile(_, _, _, _), saveFileAs(_, _, _, _)

saveFile(cf, m, msg, env) ==
  IF cf = NoFile THEN saveFileAs(cf, m, msg, env)
  ELSE IF ~env.openOk THEN SaveState(FALSE, cf, m, msg)
  ELSE IF ~env.writeOk THEN SaveState(FALSE, cf, m, msg)
  ELSE SaveState(TRUE, cf, FALSE, SavedMsg(cf))

saveFileAs(cf, m, msg, env) ==
  IF env.saveName = NoFile THEN SaveState(FALSE, cf, m, msg)
  ELSE saveFile(env.saveName, m, msg, env)

Op(op, outcome, inputValid) == [op |-> op, outcome |-> outcome, inputValid |-> inputValid]

(* After an edit the probe keeps the result of that run, if it is the      *)
(* first it picks and ran on one of the snapshots ProbeTexts, or stays as  *)
(* it is.                                                                  *)
ProbeTexts == {<<97>>, <<32, 97>>}
NoProbe == [text |-> <<>>, wordCount |-> -1, graphemes |-> -1]
ProbeOf(stats) == [text |-> stats.text, wordCount |-> stats.wordCount, graphemes |-> stats.graphemes]
TakeProbe(stats) ==
  \/ probe' = probe
  \/ /\ probe = NoProbe
     /\ stats.text \in ProbeTexts
     /\ probe' = ProbeOf(stats)

Init ==
  /\ text = <<>>
  /\ modified = FALSE
  /\ currentFile = NoFile
  /\ wordStatus \in ICUStatus
  /\ charStatus \in ICUStatus
  /\ lastOp = Op("CodeEditor", "done", TRUE)
  /\ probe = NoProbe
  /\ lastStats = updateStats(<<>>)
  /\ statusMsg = lastStats.msg

(* The texts one keystroke away: one code point inserted or removed.       *)
Insertions(t) ==
  {SubSeq(t, 1, i) \o <<c>> \o SubSeq(t, i + 1, Len(t)) : i \in 0..Len(t), c \in Alphabet}
Deletions(t) ==
  {SubSeq(t, 1, i - 1) \o SubSeq(t, i + 1, Len(t)) : i \in 1..Len(t)}

(* The user edits the document: textChanged runs updateStats.              *)
UserEdit ==
  \E new \in (IF Len(text) < MaxLen THEN Insertions(text) ELSE {}) \cup Deletions(text) :
    /\ text' = new
    /\ modified' = TRUE
    /\ lastStats' = updateStats(new)
    /\ statusMsg' = lastStats'.msg
    /\ lastOp' = Op("edit", "done", TRUE)
    /\ TakeProbe(lastStats')
    /\ UNCHANGED <<currentFile, wordStatus, charStatus>>

(* The state after the "Unsaved Changes" question of newFile and openFile: *)
(* go on, or return early.                                                 *)
AskToSave(answer, env) ==
  IF ~modified THEN [go |-> TRUE, outcome |-> "done", s |-> SaveState(TRUE, currentFile, modified, statusMsg)]
  ELSE IF answer = "Cancel"
    THEN [go |-> FALSE, outcome |-> "cancel", s |-> SaveState(FALSE, currentFile, modified, statusMsg)]
  ELSE IF answer = "Yes"
    THEN LET s == saveFile(currentFile, modified, statusMsg, env)
         IN  [go |-> s.ret, outcome |-> IF s.ret THEN "done" ELSE "saveFailed", s |-> s]
  ELSE [go |-> TRUE, outcome |-> "done", s |-> SaveState(TRUE, currentFile, modified, statusMsg)]

NewFile ==
  \E answer \in AskAnswers : \E env \in AskEnvs(answer) :
    LET a == AskToSave(answer, env)
    IN  /\ lastOp' = Op("newFile", a.outcome, TRUE)
        /\ IF a.go
           THEN /\ lastStats' = setText(text, <<>>)
                /\ text' = <<>>
                /\ currentFile' = NoFile
                /\ modified' = FALSE
                /\ statusMsg' = NewFileMsg
           ELSE /\ currentFile' = a.s.currentFile
                /\ modified' = a.s.modified
                /\ statusMsg' = a.s.statusMsg
                /\ UNCHANGED <<text, lastStats>>
        /\ UNCHANGED <<wordStatus, charStatus, probe>>

(* What the Open dialog and the file give: no name, a file that does not   *)
(* open, or a name and the bytes read.                                     *)
OpenEnvs ==
  {[fileName |-> NoFile, readable |-> FALSE, bytes |-> <<>>]}
    \cup [fileName : FileNames, readable : {FALSE}, bytes : {<<>>}]
    \cup [fileName : FileNames, readable : {TRUE}, bytes : FileContents]

OpenFile ==
  \E answer \in AskAnswers : \E env \in AskEnvs(answer) :
    LET a == AskToSave(answer, env)
    IN  IF ~a.go
        THEN /\ lastOp' = Op("openFile", a.outcome, TRUE)
             /\ currentFile' = a.s.currentFile
             /\ modified' = a.s.modified
             /\ statusMsg' = a.s.statusMsg
             /\ UNCHANGED <<text, lastStats, probe, wordStatus, charStatus>>
        ELSE \E o \in OpenEnvs :
               LET contents == QString_fromUtf8(o.bytes)
               IN  IF o.fileName = NoFile \/ ~o.readable
                   THEN /\ lastOp' = Op("openFile",
                                        IF o.fileName = NoFile THEN "noFile" ELSE "openFailed",
                                        TRUE)
                        /\ currentFile' = a.s.currentFile
                        /\ modified' = a.s.modified
                        /\ statusMsg' = a.s.statusMsg
                        /\ UNCHANGED <<text, lastStats, probe, wordStatus, charStatus>>
                   ELSE /\ lastOp' = Op("openFile", "done", ValidUtf8(o.bytes))
                        /\ lastStats' = setText(text, contents)
                        /\ text' = contents
                        /\ currentFile' = o.fileName
                        /\ modified' = FALSE
                        /\ statusMsg' = OpenedMsg(o.fileName)
                        /\ UNCHANGED <<wordStatus, charStatus, probe>>

SaveFile ==
  \E env \in SaveEnvs(currentFile) :
    LET s == saveFile(currentFile, modified, statusMsg, env)
    IN  /\ currentFile' = s.currentFile
        /\ modified' = s.modified
        /\ statusMsg' = s.statusMsg
        /\ lastOp' = Op("saveFile", IF s.ret THEN "done" ELSE "saveFailed", TRUE)
        /\ UNCHANGED <<text, wordStatus, charStatus, lastStats, probe>>

SaveFileAs ==
  \E env \in SaveEnvs(NoFile) :
    LET s == saveFileAs(currentFile, modified, statusMsg, env)
    IN  /\ currentFile' = s.currentFile
        /\ modified' = s.modified
        /\ statusMsg' = s.statusMsg
        /\ lastOp' = Op("saveFileAs", IF s.ret THEN "done" ELSE "saveFailed", TRUE)
        /\ UNCHANGED <<text, wordStatus, charStatus, lastStats, probe>>

Next == UserEdit \/ NewFile \/ OpenFile \/ SaveFile \/ SaveFileAs

Spec == Init /\ [][Next]_vars

(***************************************************************************)
(* Properties.                                                             *)
(***************************************************************************)
(* The segments of a boundary set: the pairs of adjacent boundaries.       *)
Segments(bs) ==
  {seg \in bs \X bs : seg[1] < seg[2] /\ ~\E c \in bs : seg[1] < c /\ c < seg[2]}

(* The word-mode segments the word analyzer of this process yields for u;  *)
(* none when no analyzer could be created.                                 *)
WordSegments(u) == IF U_SUCCESS(wordStatus) THEN Segments(WordBoundaries(u)) ELSE {}

(* The segments of u whose class is word-like: rule status other than none. *)
WordLikeSegments(u) ==
  {seg \in WordSegments(u) : getRuleStatus(u, WordBoundaries(u), seg[2]) # UBRK_WORD_NONE}

(* C1: the wordCount of every updateStats run is the number of word-mode   *)
(* segments of its snapshot that are classified word-like; non-word        *)
(* segments add nothing, so a snapshot of non-word segments only has       *)
(* wordCount 0.                                                            *)
C1_WordCountIsWordLikeSegments ==
  /\ lastStats.wordCount = Cardinality(WordLikeSegments(lastStats.utext))
  /\ lastStats.msg.words = lastStats.wordCount
  /\ WordLikeSegments(lastStats.utext) = {} => lastStats.wordCount = 0

(* A run on a snapshot with a word-like and a non-word segment.            *)
C1_Witness ==
  /\ lastOp.op = "edit"
  /\ Cardinality(WordSegments(lastStats.utext)) = 2
  /\ lastStats.wordCount = 1

(* The adjacent boundary pairs the grapheme analyzer of this process       *)
(* yields for u; none when no analyzer could be created.                   *)
GraphemeSegments(u) ==
  IF U_SUCCESS(charStatus) THEN Segments(GraphemeBoundaries(u)) ELSE {}

(* C2: the graphemeCount of every updateStats run is the number of         *)
(* adjacent grapheme boundary pairs of its snapshot: with the analyzer     *)
(* created, the number of boundaries minus one for a non-empty snapshot,   *)
(* and 0 for the empty snapshot, whose only boundary is 0.                 *)
C2_GraphemeCountIsBoundariesMinusOne ==
  /\ lastStats.graphemes = Cardinality(GraphemeSegments(lastStats.utext))
  /\ lastStats.msg.chars = lastStats.graphemes
  /\ U_SUCCESS(charStatus) =>
       /\ lastStats.utext # <<>> =>
            lastStats.graphemes = Cardinality(GraphemeBoundaries(lastStats.utext)) - 1
       /\ lastStats.utext = <<>> =>
            GraphemeBoundaries(lastStats.utext) = {0} /\ lastStats.graphemes = 0

(* A run on two scalar values that form one cluster: a character and the   *)
(* combining mark after it.                                                *)
C2_Witness ==
  /\ U_SUCCESS(charStatus)
  /\ Len(lastStats.utext) = 2
  /\ lastStats.graphemes = 1

(* C3: a counts message is reported only by a run in which both analyzers  *)
(* were created; a run in which one failed reports no counts.              *)
C3_NoPartialResults ==
  IsCountsMsg(lastStats.msg) => U_SUCCESS(wordStatus) /\ U_SUCCESS(charStatus)

(* C4: a run for input that was not valid Unicode produces no counts; in   *)
(* every other run both counts are non-negative integers.                  *)
C4_InvalidTextFails ==
  /\ (lastOp.op = "openFile" /\ lastOp.outcome = "done" /\ ~lastOp.inputValid)
       => ~IsCountsMsg(lastStats.msg)
  /\ IsCountsMsg(lastStats.msg) => lastStats.wordCount \in Nat /\ lastStats.graphemes \in Nat

C6_StatsRunAfterEveryMutation == lastStats.text = text

(* openFile replaced the document and the run followed.                    *)
C6_Witness ==
  /\ lastOp.op = "openFile"
  /\ lastOp.outcome = "done"
  /\ text # <<>>
  /\ lastStats.text = text

(* C7: the sequence handed to the break iterators is the editor's text.    *)
C7_SnapshotIsEditorText == lastStats.utext = lastStats.text

(* C8: a run on the snapshot of an earlier, probed run returns the counts  *)
(* that run returned.                                                      *)
C8_SameSnapshotSameCounts ==
  (probe # NoProbe /\ lastStats.text = probe.text) =>
    /\ lastStats.wordCount = probe.wordCount
    /\ lastStats.graphemes = probe.graphemes

(* A run started by openFile on the snapshot an earlier edit was probed    *)
(* on.                                                                     *)
C8_Witness ==
  /\ probe # NoProbe
  /\ probe.wordCount = 1
  /\ lastOp.op = "openFile"
  /\ lastOp.outcome = "done"
  /\ lastStats.text = probe.text

(* C9: a newFile or openFile that ends on Cancel or on a failed save       *)
(* leaves text, currentFile and modified as they were.                     *)
C9_AbortChangesNothing ==
  [][(lastOp'.op \in {"newFile", "openFile"} /\ lastOp'.outcome \in {"cancel", "saveFailed"})
       => (text' = text /\ currentFile' = currentFile /\ modified' = modified)]_vars

(* The counts of a text by the segmentation rules alone.                   *)
WordCountOf(t) ==
  Cardinality({seg \in Segments(WordBoundaries(t)) :
                 getRuleStatus(t, WordBoundaries(t), seg[2]) # UBRK_WORD_NONE})
GraphemeCountOf(t) == Cardinality(Segments(GraphemeBoundaries(t)))

(* C10: a counts message on the status bar carries the word count and the  *)
(* grapheme count of the text the editor holds now.                        *)
C10_ShownCountsAreCurrent ==
  IsCountsMsg(statusMsg) =>
    /\ statusMsg.words = WordCountOf(text)
    /\ statusMsg.chars = GraphemeCountOf(text)

=============================================================================
